---- MODULE Spec2Model ----
(***************************************************************************)
(* Model of src/util.ts of vscode-cmake-tools: the process-tree terminator *)
(* (termProc / _killTree), the command-line tokenizer (splitCommandLine),  *)
(* the value marshaller (cmakeify), the variable substitutor (replaceVars) *)
(* and the path normalizer (normalizePath).                                *)
(*                                                                         *)
(* Strings are sequences of one-character strings.                         *)
(***************************************************************************)
EXTENDS Integers, Sequences, FiniteSets, TLC

VARIABLES
    \* ---- the operating system's process table -------------------------
    platform,    \* process.platform: "linux" or "win32"
    procs,       \* pids created so far
    alive,       \* pids of the processes that are running
    ppid,        \* pid -> parent pid (0: re-parented to init / none)
    \* ---- termProc / _killTree ------------------------------------------
    status,      \* the promise of termProc: "idle", "running", "resolved", "rejected"
    stack,       \* the suspended _killTree activations, innermost first
    sigLog,      \* the pids process.kill(pid, 'SIGINT') delivered to, in order
    esrch,       \* the pids for which process.kill threw ESRCH
    failed,      \* the pids for which process.kill threw another error
    foundUnder,  \* pid -> the pid whose pgrep listing named it (0: never listed)
    changed,     \* the process tree changed after termProc was called
    taskkill,    \* a 'taskkill /pid .. /T /F' was started (win32)
    \* ---- the pure functions --------------------------------------------
    fn,          \* which function the call is of ("none" under Spec)
    arg,         \* its argument
    out          \* its outcome ([kind |-> "pending"] before the call)

vars == <<platform, procs, alive, ppid, status, stack, sigLog, esrch, failed,
          foundUnder, changed, taskkill, fn, arg, out>>

procVars == <<platform, procs, alive, ppid, status, stack, sigLog, esrch,
              failed, foundUnder, changed, taskkill>>
callVars == <<fn, arg, out>>

(***************************************************************************)
(* Bounds                                                                  *)
(***************************************************************************)
MaxPid == 4         \* processes ever created in one behaviour
MaxCmdLen == 4      \* length of the command strings enumerated
MaxElemLen == 2     \* length of the strings given to cmakeify
MaxListLen == 2     \* length of the arrays given to cmakeify
MaxPieces == 2      \* pieces a template given to replaceVars is made of
MaxPathLen == 4     \* length of the paths given to normalizePath

Pids == 1 .. MaxPid

\* child.pid, the process the caller spawned: the first process created
RootPid == CHOOSE p \in Pids : \A q \in Pids : p <= q

(***************************************************************************)
(* Helpers on sequences                                                    *)
(***************************************************************************)
Range(s) == {s[i] : i \in 1 .. Len(s)}

\* the position of the first occurrence of x in s, 0 when there is none
FirstIndex(s, x) ==
    IF x \in Range(s) THEN CHOOSE i \in 1 .. Len(s) : s[i] = x /\ \A j \in 1 .. i - 1 : s[j] # x
    ELSE 0

RECURSIVE SortedSeq(_)
SortedSeq(S) ==
    IF S = {} THEN <<>>
    ELSE LET m == CHOOSE x \in S : \A y \in S : x <= y
         IN <<m>> \o SortedSeq(S \ {m})

(***************************************************************************)
(* The process table                                                       *)
(***************************************************************************)
signalled == Range(sigLog)

Children(p) == {c \in alive : ppid[c] = p}

\* c is a running process below r in the process table
RECURSIVE IsDescendant(_, _)
IsDescendant(c, r) ==
    /\ ppid[c] # 0
    /\ (ppid[c] = r \/ IsDescendant(ppid[c], r))

Descendants(r) == {c \in alive : IsDescendant(c, r)}

\* a running process that was not sent SIGINT forks a child
Spawn(p) ==
    /\ status \in {"idle", "running"}
    /\ p \in alive
    /\ p \notin signalled
    /\ Cardinality(procs) < MaxPid
    /\ LET new == Cardinality(procs) + 1
       IN /\ procs' = procs \cup {new}
          /\ alive' = alive \cup {new}
          /\ ppid' = [ppid EXCEPT ![new] = p]
    /\ changed' = (changed \/ status = "running")
    /\ UNCHANGED <<platform, status, stack, sigLog, esrch, failed, foundUnder, taskkill>>
    /\ UNCHANGED callVars

\* a process exits; the kernel re-parents its children to init
Exit(p) ==
    /\ status \in {"idle", "running"}
    /\ p \in alive
    /\ alive' = alive \ {p}
    /\ ppid' = [q \in Pids |-> IF ppid[q] = p THEN 0 ELSE ppid[q]]
    /\ changed' = (changed \/ status = "running")
    /\ UNCHANGED <<platform, procs, status, stack, sigLog, esrch, failed, foundUnder, taskkill>>
    /\ UNCHANGED callVars

(***************************************************************************)
(* termProc and _killTree                                                  *)
(***************************************************************************)
Frame(pid) == [pid |-> pid, pc |-> "pgrep", children |-> <<>>, i |-> 1]

Top == stack[1]

\* termProc(child) on POSIX: _killTree(child.pid) runs up to its first await,
\* the pgrep query
TermProcPosix ==
    /\ status = "idle"
    /\ platform # "win32"
    /\ status' = "running"
    /\ stack' = <<Frame(RootPid)>>
    /\ UNCHANGED <<platform, procs, alive, ppid, sigLog, esrch, failed, foundUnder, changed, taskkill>>
    /\ UNCHANGED callVars

\* termProc(child) on win32: _killTree starts taskkill and returns at once
TermProcWin32 ==
    /\ status = "idle"
    /\ platform = "win32"
    /\ status' = "running"
    /\ stack' = <<>>
    /\ taskkill' = TRUE
    /\ UNCHANGED <<platform, procs, alive, ppid, sigLog, esrch, failed, foundUnder, changed>>
    /\ UNCHANGED callVars

\* Pgrep, had _killTree signalled the process before descending (pre-order)
Pgrep_SignalFirst ==
    /\ status = "running"
    /\ stack # <<>>
    /\ Top.pc = "pgrep"
    /\ LET children == SortedSeq(Children(Top.pid))
       IN /\ stack' = <<[Top EXCEPT !.pc = "loop", !.children = children]>> \o Tail(stack)
          /\ foundUnder' = [q \in Pids |->
                               IF q \in Range(children) THEN Top.pid ELSE foundUnder[q]]
    /\ sigLog' = IF Top.pid \in alive THEN Append(sigLog, Top.pid) ELSE sigLog
    /\ UNCHANGED <<platform, procs, alive, ppid, status, esrch, failed, changed, taskkill>>
    /\ UNCHANGED callVars

\* 'pgrep -P pid' answers: its stdout lists the running children of pid, one
\* per line, in ascending order; the lines are parsed into numbers
Pgrep ==
    /\ status = "running"
    /\ stack # <<>>
    /\ Top.pc = "pgrep"
    /\ LET children == SortedSeq(Children(Top.pid))
       IN /\ stack' = <<[Top EXCEPT !.pc = "loop", !.children = children]>> \o Tail(stack)
          /\ foundUnder' = [q \in Pids |->
                               IF q \in Range(children) THEN Top.pid ELSE foundUnder[q]]
    /\ UNCHANGED <<platform, procs, alive, ppid, status, sigLog, esrch, failed, changed, taskkill>>
    /\ UNCHANGED callVars

\* Recurse, had the loop passed over the children without descending
Recurse_SkipChild ==
    /\ status = "running"
    /\ stack # <<>>
    /\ Top.pc = "loop"
    /\ Top.i <= Len(Top.children)
    /\ stack' = <<[Top EXCEPT !.i = Top.i + 1]>> \o Tail(stack)
    /\ UNCHANGED <<platform, procs, alive, ppid, status, sigLog, esrch, failed, foundUnder, changed, taskkill>>
    /\ UNCHANGED callVars

\* one turn of 'for (const other of children)': await _killTree(other)
Recurse ==
    /\ status = "running"
    /\ stack # <<>>
    /\ Top.pc = "loop"
    /\ Top.i <= Len(Top.children)
    /\ LET other == Top.children[Top.i]
           rest  == <<[Top EXCEPT !.i = Top.i + 1]>> \o Tail(stack)
       IN stack' = IF other # 0 THEN <<Frame(other)>> \o rest ELSE rest
    /\ UNCHANGED <<platform, procs, alive, ppid, status, sigLog, esrch, failed, foundUnder, changed, taskkill>>
    /\ UNCHANGED callVars

AtKill ==
    /\ status = "running"
    /\ stack # <<>>
    /\ Top.pc = "loop"
    /\ Top.i > Len(Top.children)

\* process.kill(pid, 'SIGINT') succeeds; this activation of _killTree returns
KillOk ==
    /\ AtKill
    /\ Top.pid \in alive
    /\ sigLog' = Append(sigLog, Top.pid)
    /\ stack' = Tail(stack)
    /\ UNCHANGED <<platform, procs, alive, ppid, status, esrch, failed, foundUnder, changed, taskkill>>
    /\ UNCHANGED callVars

\* KillEsrch, had the catch block rethrown ESRCH like any other error
KillEsrch_Rethrow ==
    /\ status = "running"
    /\ stack # <<>>
    /\ Top.pc = "loop"
    /\ Top.i > Len(Top.children)
    /\ Top.pid \notin alive
    /\ esrch' = esrch \cup {Top.pid}
    /\ stack' = <<>>
    /\ status' = "rejected"
    /\ UNCHANGED <<platform, procs, alive, ppid, sigLog, failed, foundUnder, changed, taskkill>>
    /\ UNCHANGED callVars

\* process.kill throws ESRCH (no such process): caught, "We're okay"
KillEsrch ==
    /\ AtKill
    /\ Top.pid \notin alive
    /\ esrch' = esrch \cup {Top.pid}
    /\ stack' = Tail(stack)
    /\ UNCHANGED <<platform, procs, alive, ppid, status, sigLog, failed, foundUnder, changed, taskkill>>
    /\ UNCHANGED callVars

\* process.kill throws another error (EPERM, ...): rethrown; the exception
\* leaves every awaiting activation of _killTree and rejects termProc
KillThrow ==
    /\ AtKill
    /\ Top.pid \in alive
    /\ failed' = failed \cup {Top.pid}
    /\ stack' = <<>>
    /\ status' = "rejected"
    /\ UNCHANGED <<platform, procs, alive, ppid, sigLog, esrch, foundUnder, changed, taskkill>>
    /\ UNCHANGED callVars

\* 'await _killTree(child.pid); return true'
TermProcReturn ==
    /\ status = "running"
    /\ stack = <<>>
    /\ status' = "resolved"
    /\ UNCHANGED <<platform, procs, alive, ppid, stack, sigLog, esrch, failed, foundUnder, changed, taskkill>>
    /\ UNCHANGED callVars

(***************************************************************************)
(* Helpers on strings                                                      *)
(***************************************************************************)
StringsUpTo(A, n) == UNION {[1 .. k -> A] : k \in 0 .. n}

\* the pieces of ss, one after the other
RECURSIVE Concat(_)
Concat(ss) == IF ss = <<>> THEN <<>> ELSE Head(ss) \o Concat(Tail(ss))

\* s has needle at position i
HasAt(s, i, needle) ==
    /\ i + Len(needle) - 1 <= Len(s)
    /\ \A k \in 1 .. Len(needle) : s[i + k - 1] = needle[k]

(***************************************************************************)
(* splitCommandLine                                                        *)
(***************************************************************************)
WordChars == {"a", "b", "c", "d", "e", "g", "h", "i", "j", "l", "o", "p", "r",
              "s", "t", "u", "y", "A", "M", "4", "_"}

LineTerminators == {"\n", "\r"}

\* '(\\q|[^q])*q' from position i (after the opening quote q), as the
\* backtracking matcher takes it: an iteration by \q, else an iteration by
\* [^q], else the closing quote.  The position after the match, 0 for none.
RECURSIVE QuotedRest(_, _, _)
QuotedRest(s, i, q) ==
    IF i > Len(s) THEN 0
    ELSE LET viaEscape == IF s[i] = "\\" /\ i + 1 <= Len(s) /\ s[i + 1] = q
                          THEN QuotedRest(s, i + 2, q) ELSE 0
             viaOther  == IF s[i] # q THEN QuotedRest(s, i + 1, q) ELSE 0
             viaClose  == IF s[i] = q THEN i + 1 ELSE 0
         IN IF viaEscape # 0 THEN viaEscape
            ELSE IF viaOther # 0 THEN viaOther
            ELSE viaClose

\* 'q(\\q|[^q])*q' at position i
QuotedAlt(s, i, q) ==
    IF i <= Len(s) /\ s[i] = q THEN QuotedRest(s, i + 1, q) ELSE 0

\* '(\\ |[^ ])+' at position i: nothing follows it in the pattern, so the
\* greedy match never backtracks
RECURSIVE BareRest(_, _)
BareRest(s, i) ==
    IF i + 1 <= Len(s) /\ s[i] = "\\" /\ s[i + 1] = " " THEN BareRest(s, i + 2)
    ELSE IF i <= Len(s) /\ s[i] # " " THEN BareRest(s, i + 1)
    ELSE i

BareAlt(s, i) == LET e == BareRest(s, i) IN IF e > i THEN e ELSE 0

\* '[\w-]+' at position i
RECURSIVE WordRest(_, _)
WordRest(s, i) ==
    IF i <= Len(s) /\ s[i] \in WordChars \cup {"-"} THEN WordRest(s, i + 1) ELSE i

WordAlt(s, i) == LET e == WordRest(s, i) IN IF e > i THEN e ELSE 0

\* cmd_re at position i: the alternatives in their order
MatchAt(s, i) ==
    IF QuotedAlt(s, i, "'") # 0 THEN QuotedAlt(s, i, "'")
    ELSE IF QuotedAlt(s, i, "\"") # 0 THEN QuotedAlt(s, i, "\"")
    ELSE IF BareAlt(s, i) # 0 THEN BareAlt(s, i)
    ELSE WordAlt(s, i)

\* cmd.match(cmd_re) with the g flag: the successive matches, left to right
\* (<<>> stands for the null that match returns when there is none)
RECURSIVE MatchAll(_, _)
MatchAll(s, i) ==
    IF i > Len(s) THEN <<>>
    ELSE LET e == MatchAt(s, i)
         IN IF e = 0 THEN MatchAll(s, i + 1)
            ELSE <<SubSeq(s, i, e - 1)>> \o MatchAll(s, e)

\* arg.replace(/\\(")/g, '$1')
RECURSIVE UnescapeQuotes(_)
UnescapeQuotes(a) ==
    IF a = <<>> THEN <<>>
    ELSE IF Len(a) >= 2 /\ a[1] = "\\" /\ a[2] = "\""
         THEN <<"\"">> \o UnescapeQuotes(SubSeq(a, 3, Len(a)))
         ELSE <<a[1]>> \o UnescapeQuotes(Tail(a))

\* arg.replace(/^"(.*)"$/g, '$1')
StripDoubleQuotes(a) ==
    IF /\ Len(a) >= 2
       /\ a[1] = "\""
       /\ a[Len(a)] = "\""
       /\ \A k \in 2 .. Len(a) - 1 : a[k] \notin LineTerminators
    THEN SubSeq(a, 2, Len(a) - 1)
    ELSE a

CleanArg(a) == StripDoubleQuotes(UnescapeQuotes(a))

\* splitCommandLine(cmd) when the pattern matches somewhere
SplitCommandLine ==
    /\ fn = "splitCommandLine"
    /\ out.kind = "pending"
    /\ LET quoted_args == MatchAll(arg, 1)
       IN /\ quoted_args # <<>>
          /\ out' = [kind |-> "returned",
                     quoted_args |-> quoted_args,
                     value |-> [k \in 1 .. Len(quoted_args) |-> CleanArg(quoted_args[k])]]
    /\ UNCHANGED <<fn, arg>>
    /\ UNCHANGED procVars

\* match returned null and console.assert(quoted_args) throws (Node before
\* version 10, the runtime of the extension host at the time)
SplitCommandLineAssertThrows ==
    /\ fn = "splitCommandLine"
    /\ out.kind = "pending"
    /\ MatchAll(arg, 1) = <<>>
    /\ out' = [kind |-> "thrown", error |-> "AssertionError"]
    /\ UNCHANGED <<fn, arg>>
    /\ UNCHANGED procVars

\* match returned null, console.assert only logs (Node 10 and later), and
\* quoted_args!.map dereferences null
SplitCommandLineNullMap ==
    /\ fn = "splitCommandLine"
    /\ out.kind = "pending"
    /\ MatchAll(arg, 1) = <<>>
    /\ out' = [kind |-> "thrown", error |-> "TypeError"]
    /\ UNCHANGED <<fn, arg>>
    /\ UNCHANGED procVars


(***************************************************************************)
(* replaceAll                                                              *)
(***************************************************************************)
\* The replacement text of String.prototype.replace for the match of needle
\* at position pos of s: in 'what', $$ is a dollar, $& the match, $` the text
\* before the match and $' the text after it (the pattern has no groups, so
\* $1 .. $9 stay as they are).
RECURSIVE Substitution(_, _, _, _, _)
Substitution(what, k, s, pos, needle) ==
    IF k > Len(what) THEN <<>>
    ELSE IF what[k] = "$" /\ k < Len(what) /\ what[k + 1] \in {"$", "&", "`", "'"}
         THEN (CASE what[k + 1] = "$" -> <<"$">>
                 [] what[k + 1] = "&" -> needle
                 [] what[k + 1] = "`" -> SubSeq(s, 1, pos - 1)
                 [] what[k + 1] = "'" -> SubSeq(s, pos + Len(needle), Len(s)))
              \o Substitution(what, k + 2, s, pos, needle)
         ELSE <<what[k]>> \o Substitution(what, k + 1, s, pos, needle)

\* str.replace(new RegExp(escapeStringForRegex(needle), 'g'), what) from
\* position i on: the escaped pattern matches needle literally; the matches
\* are taken left to right and do not overlap
RECURSIVE ReplaceFrom(_, _, _, _)
ReplaceFrom(s, i, needle, what) ==
    IF needle = <<>>
    THEN Substitution(what, 1, s, i, needle)
         \o (IF i > Len(s) THEN <<>> ELSE <<s[i]>> \o ReplaceFrom(s, i + 1, needle, what))
    ELSE IF i > Len(s) THEN <<>>
    ELSE IF HasAt(s, i, needle)
         THEN Substitution(what, 1, s, i, needle)
              \o ReplaceFrom(s, i + Len(needle), needle, what)
         ELSE <<s[i]>> \o ReplaceFrom(s, i + 1, needle, what)

replaceAll(str, needle, what) == ReplaceFrom(str, 1, needle, what)

Includes(s, needle) == \E i \in 1 .. Len(s) : HasAt(s, i, needle)

(***************************************************************************)
(* cmakeify                                                                *)
(***************************************************************************)
RECURSIVE Join(_, _)
Join(parts, sep) ==
    IF parts = <<>> THEN <<>>
    ELSE IF Len(parts) = 1 THEN parts[1]
    ELSE parts[1] \o sep \o Join(Tail(parts), sep)

Digit(d) == <<"0", "1", "2", "3", "4", "5", "6", "7", "8", "9">>[d + 1]

RECURSIVE Digits(_)
Digits(n) == IF n < 10 THEN <<Digit(n)>> ELSE Digits(n \div 10) \o <<Digit(n % 10)>>

\* Number.prototype.toString of an integer
NumberToString(n) == IF n < 0 THEN <<"-">> \o Digits(0 - n) ELSE Digits(n)

\* the value cmakeify returns for a value of one of the four variants
cmakeifyValue(value) ==
    CASE value.t = "boolean" ->
           [type |-> "BOOL",
            value |-> IF value.v THEN <<"T", "R", "U", "E">> ELSE <<"F", "A", "L", "S", "E">>]
      [] value.t = "string" ->
           [type |-> "STRING", value |-> replaceAll(value.v, <<";">>, <<"\\", ";">>)]
      [] value.t = "number" ->
           [type |-> "STRING", value |-> NumberToString(value.v)]
      [] value.t = "array" ->
           [type |-> "STRING", value |-> Join(value.v, <<";">>)]

Cmakeify ==
    /\ fn = "cmakeify"
    /\ out.kind = "pending"
    /\ arg.t \in {"boolean", "string", "number", "array"}
    /\ out' = [kind |-> "returned", value |-> cmakeifyValue(arg)]
    /\ UNCHANGED <<fn, arg>>
    /\ UNCHANGED procVars

\* any other value: throw new Error('Invalid value to convert to cmake value')
CmakeifyThrows ==
    /\ fn = "cmakeify"
    /\ out.kind = "pending"
    /\ arg.t \notin {"boolean", "string", "number", "array"}
    /\ out' = [kind |-> "thrown", error |-> "Error"]
    /\ UNCHANGED <<fn, arg>>
    /\ UNCHANGED procVars

(***************************************************************************)
(* replaceVars                                                             *)
(***************************************************************************)
WorkspaceRootKey ==
    <<"$", "{", "w", "o", "r", "k", "s", "p", "a", "c", "e", "R", "o", "o", "t", "}">>
WorkspaceRootFolderNameKey ==
    <<"$", "{", "w", "o", "r", "k", "s", "p", "a", "c", "e", "R", "o", "o", "t",
      "F", "o", "l", "d", "e", "r", "N", "a", "m", "e", "}">>
ToolsetKey == <<"$", "{", "t", "o", "o", "l", "s", "e", "t", "}">>

\* x || dflt on strings: undefined, null and '' are all falsy (<<>> here)
OrDefault(x, dflt) == IF x = <<>> THEN dflt ELSE x

\* path.basename on POSIX: the last segment, trailing slashes ignored
Basename(p) ==
    LET ends == {i \in 1 .. Len(p) : p[i] # "/"}
    IN IF ends = {} THEN <<>>
       ELSE LET e == CHOOSE i \in ends : \A j \in ends : j <= i
                slashes == {i \in 1 .. e : p[i] = "/"}
                b == IF slashes = {} THEN 0
                     ELSE CHOOSE i \in slashes : \A j \in slashes : j <= i
            IN SubSeq(p, b + 1, e)

\* the replacements object, in the order of its keys
Replacements(rootPath, toolset) ==
    << <<WorkspaceRootKey, OrDefault(rootPath, <<".">>)>>,
       <<WorkspaceRootFolderNameKey, Basename(OrDefault(rootPath, <<".">>))>>,
       <<ToolsetKey, OrDefault(toolset, <<"u", "n", "k", "n", "o", "w", "n">>)>> >>

\* Object.keys(replacements).reduce((acc, key) => replaceAll(acc, key, ..), str)
RECURSIVE ReduceReplace(_, _)
ReduceReplace(acc, reps) ==
    IF reps = <<>> THEN acc
    ELSE ReduceReplace(replaceAll(acc, reps[1][1], reps[1][2]), Tail(reps))

replaceVars(str, rootPath, toolset) == ReduceReplace(str, Replacements(rootPath, toolset))

ReplaceVars ==
    /\ fn = "replaceVars"
    /\ out.kind = "pending"
    /\ out' = [kind |-> "returned", value |-> replaceVars(arg.str, arg.rootPath, arg.toolset)]
    /\ UNCHANGED <<fn, arg>>
    /\ UNCHANGED procVars

(***************************************************************************)
(* normalizePath                                                           *)
(***************************************************************************)
\* the segments of p between the slashes
RECURSIVE SplitSlash(_)
SplitSlash(p) ==
    LET slashes == {i \in 1 .. Len(p) : p[i] = "/"}
    IN IF slashes = {} THEN <<p>>
       ELSE LET k == CHOOSE i \in slashes : \A j \in slashes : i <= j
            IN <<SubSeq(p, 1, k - 1)>> \o SplitSlash(SubSeq(p, k + 1, Len(p)))

\* normalizeString of path.posix: drops empty and "." segments and resolves
\* ".." against the segment before it
RECURSIVE NormalizeSegments(_, _, _)
NormalizeSegments(segs, res, allowAboveRoot) ==
    IF segs = <<>> THEN res
    ELSE LET seg == Head(segs)
             r == IF seg = <<>> \/ seg = <<".">> THEN res
                  ELSE IF seg = <<".", ".">>
                       THEN IF res # <<>> /\ res[Len(res)] # <<".", ".">>
                            THEN SubSeq(res, 1, Len(res) - 1)
                            ELSE IF allowAboveRoot THEN Append(res, seg) ELSE res
                       ELSE Append(res, seg)
         IN NormalizeSegments(Tail(segs), r, allowAboveRoot)

\* path.normalize on POSIX
PathNormalize(p) ==
    IF p = <<>> THEN <<".">>
    ELSE LET isAbsolute == p[1] = "/"
             trailingSeparator == p[Len(p)] = "/"
             path == Join(NormalizeSegments(SplitSlash(p), <<>>, ~isAbsolute), <<"/">>)
         IN IF path = <<>>
            THEN (IF isAbsolute THEN <<"/">>
                  ELSE IF trailingSeparator THEN <<".", "/">> ELSE <<".">>)
            ELSE (IF isAbsolute THEN <<"/">> ELSE <<>>)
                 \o path
                 \o (IF trailingSeparator THEN <<"/">> ELSE <<>>)

LowerCase(c) == IF c = "A" THEN "a" ELSE c

\* norm.replace(/\/$/, '')
StripTrailingSlash(norm) ==
    IF norm # <<>> /\ norm[Len(norm)] = "/" THEN SubSeq(norm, 1, Len(norm) - 1) ELSE norm

\* while (norm.includes('//')) norm = replaceAll(norm, '//', '/')
RECURSIVE CollapseSlashes(_)
CollapseSlashes(norm) ==
    IF Includes(norm, <<"/", "/">>)
    THEN CollapseSlashes(replaceAll(norm, <<"/", "/">>, <<"/">>))
    ELSE norm

\* normalizePath on a POSIX host: path.sep is path.posix.sep, so the first
\* loop does nothing, and the case is folded on win32 only
normalizePath(p, normalize_case) ==
    LET norm  == PathNormalize(p)
        cased == IF normalize_case /\ platform = "win32"
                 THEN [k \in 1 .. Len(norm) |-> LowerCase(norm[k])]
                 ELSE norm
    IN CollapseSlashes(StripTrailingSlash(cased))

NormalizePath ==
    /\ fn = "normalizePath"
    /\ out.kind = "pending"
    /\ out' = [kind |-> "returned", calls |-> 1, of |-> arg.p,
               value |-> normalizePath(arg.p, arg.normalize_case)]
    /\ UNCHANGED <<fn, arg>>
    /\ UNCHANGED procVars

\* the caller passes the result to normalizePath once more
NormalizePathAgain ==
    /\ fn = "normalizePath"
    /\ out.kind = "returned"
    /\ out.calls = 1
    /\ out' = [kind |-> "returned", calls |-> 2, of |-> out.value,
               value |-> normalizePath(out.value, arg.normalize_case)]
    /\ UNCHANGED <<fn, arg>>
    /\ UNCHANGED procVars


(***************************************************************************)
(* Specifications                                                          *)
(***************************************************************************)
InitProc ==
    /\ procs = {RootPid}
    /\ alive = {RootPid}
    /\ ppid = [q \in Pids |-> 0]
    /\ status = "idle"
    /\ stack = <<>>
    /\ sigLog = <<>>
    /\ esrch = {}
    /\ failed = {}
    /\ foundUnder = [q \in Pids |-> 0]
    /\ changed = FALSE
    /\ taskkill = FALSE

\* termProc on a process tree that grows and shrinks on its own
Init ==
    /\ platform \in {"linux", "win32"}
    /\ InitProc
    /\ fn = "none"
    /\ arg = <<>>
    /\ out = [kind |-> "pending"]

Next ==
    \/ \E p \in Pids : Spawn(p)
    \/ \E p \in Pids : Exit(p)
    \/ TermProcPosix
    \/ TermProcWin32
    \/ Pgrep
    \/ Recurse
    \/ KillOk
    \/ KillEsrch
    \/ KillThrow
    \/ TermProcReturn

Spec == Init /\ [][Next]_vars

\* ---- splitCommandLine on every short command string ----------------------
CmdAlphabet == {"a", " ", "\"", "'", "\\"}

\* build --target "My App" -j4
CmdBuildTarget ==
    <<"b", "u", "i", "l", "d", " ", "-", "-", "t", "a", "r", "g", "e", "t", " ",
      "\"", "M", "y", " ", "A", "p", "p", "\"", " ", "-", "j", "4">>

\* echo "say \"hi\""
CmdEchoSayHi ==
    <<"e", "c", "h", "o", " ", "\"", "s", "a", "y", " ", "\\", "\"", "h", "i",
      "\\", "\"", "\"">>

InitSplit ==
    /\ platform = "linux"
    /\ InitProc
    /\ fn = "splitCommandLine"
    /\ arg \in StringsUpTo(CmdAlphabet, MaxCmdLen) \cup {CmdBuildTarget, CmdEchoSayHi}
    /\ out = [kind |-> "pending"]

NextSplit ==
    \/ SplitCommandLine
    \/ SplitCommandLineAssertThrows
    \/ SplitCommandLineNullMap

SpecSplit == InitSplit /\ [][NextSplit]_vars

\* ---- cmakeify on values of every variant ---------------------------------
ElemAlphabet == {"a", "\\", ";"}

ElemStrings == StringsUpTo(ElemAlphabet, MaxElemLen)

NumberInputs == {0 - 12, 0 - 1, 0, 7, 10, 42}

InitCmakeify ==
    /\ platform = "linux"
    /\ InitProc
    /\ fn = "cmakeify"
    /\ \/ \E v \in BOOLEAN : arg = [t |-> "boolean", v |-> v]
       \/ \E v \in ElemStrings : arg = [t |-> "string", v |-> v]
       \/ \E v \in NumberInputs : arg = [t |-> "number", v |-> v]
       \/ \E v \in StringsUpTo(ElemStrings, MaxListLen) : arg = [t |-> "array", v |-> v]
       \/ arg = [t |-> "null", v |-> <<>>]
    /\ out = [kind |-> "pending"]

NextCmakeify ==
    \/ Cmakeify
    \/ CmakeifyThrows

SpecCmakeify == InitCmakeify /\ [][NextCmakeify]_vars

\* ---- replaceVars on templates made of placeholders and other text --------
TemplatePieces ==
    {WorkspaceRootKey, WorkspaceRootFolderNameKey, ToolsetKey,
     <<"a">>, <<"/">>, <<"$">>, <<"-", "b", "u", "i", "l", "d">>}

Templates == {Concat(ps) : ps \in StringsUpTo(TemplatePieces, MaxPieces)}

\* vscode.workspace.rootPath: undefined, /w, /w/${toolset}, /w/$
RootPaths ==
    {<<>>, <<"/", "w">>, <<"/", "w", "/">> \o ToolsetKey, <<"/", "w", "/", "$">>}

\* config.toolset: null, gcc, ${workspaceRoot}
Toolsets == {<<>>, <<"g", "c", "c">>, WorkspaceRootKey}

InitVars ==
    /\ platform = "linux"
    /\ InitProc
    /\ fn = "replaceVars"
    /\ arg \in [str : Templates, rootPath : RootPaths, toolset : Toolsets]
    /\ out = [kind |-> "pending"]

NextVars == ReplaceVars

SpecVars == InitVars /\ [][NextVars]_vars

\* ---- normalizePath on every short path, applied twice --------------------
PathAlphabet == {"a", ".", "/"}

InitPath ==
    /\ platform = "linux"
    /\ InitProc
    /\ fn = "normalizePath"
    /\ arg \in [p : StringsUpTo(PathAlphabet, MaxPathLen), normalize_case : BOOLEAN]
    /\ out = [kind |-> "pending"]

NextPath ==
    \/ NormalizePath
    \/ NormalizePathAgain

SpecPath == InitPath /\ [][NextPath]_vars

(***************************************************************************)
(* Properties of termProc / _killTree (under Spec)                         *)
(***************************************************************************)
\* the pids _killTree was called on: the root and every pid a listing named
Visited == {q \in procs : q = RootPid \/ foundUnder[q] # 0}

Attempted == signalled \cup esrch \cup failed

\* C1: on POSIX, when termProc has returned true and the process tree did not
\* change during the call, SIGINT was sent to child.pid and to every
\* descendant of it.
C1_AllSignalled ==
    (status = "resolved" /\ platform # "win32" /\ ~changed)
        => /\ (RootPid \in alive => RootPid \in signalled)
           /\ Descendants(RootPid) \subseteq signalled

\* termProc returned true on an unchanged tree with a grandchild in it
C1_Witness ==
    /\ status = "resolved"
    /\ platform # "win32"
    /\ ~changed
    /\ RootPid \in signalled
    /\ Cardinality(Descendants(RootPid)) >= 2
    /\ \E c \in Descendants(RootPid) : ppid[c] # RootPid
    /\ Descendants(RootPid) \subseteq signalled

\* C2: on POSIX, SIGINT reaches a child before it reaches its parent: of a
\* parent and a child that were both signalled the child comes first, and on
\* an unchanged tree a signalled parent has all its children signalled
\* before it.
C2_ChildBeforeParent ==
    /\ \A c \in procs : \A p \in procs :
          (ppid[c] = p /\ c \in signalled /\ p \in signalled)
              => FirstIndex(sigLog, c) < FirstIndex(sigLog, p)
    /\ ~changed =>
          \A p \in signalled : \A c \in Children(p) :
              c \in signalled /\ FirstIndex(sigLog, c) < FirstIndex(sigLog, p)

\* a process with two children: both children were signalled, then it was
C2_Witness ==
    \E p \in signalled : \E c1 \in Children(p) : \E c2 \in Children(p) :
        /\ c1 # c2
        /\ c1 \in signalled
        /\ c2 \in signalled
        /\ FirstIndex(sigLog, c1) < FirstIndex(sigLog, p)
        /\ FirstIndex(sigLog, c2) < FirstIndex(sigLog, p)

\* C3: an ESRCH from process.kill is not surfaced: termProc is rejected only
\* by another error, and when it returns true every process _killTree was
\* called on had its process.kill attempted, those after the ESRCH included.
C3_EsrchNotSurfaced ==
    /\ status = "rejected" => failed # {}
    /\ (status = "resolved" /\ platform # "win32") => Visited \subseteq signalled \cup esrch

\* a child had exited when it was signalled (ESRCH); its later sibling and the
\* root were signalled all the same and termProc returned true
C3_Witness ==
    /\ status = "resolved"
    /\ RootPid \in signalled
    /\ \E n \in esrch : \E s \in signalled :
          /\ foundUnder[n] = RootPid
          /\ foundUnder[s] = RootPid
          /\ n < s

\* C4: when process.kill fails with an error other than ESRCH, the failure
\* reaches the caller and the siblings listed together with the failing
\* process still have SIGINT attempted.
C4_SiblingsStillSignalled ==
    failed # {} =>
        /\ status = "rejected"
        /\ \A f \in failed : \A s \in alive :
              (foundUnder[f] # 0 /\ foundUnder[s] = foundUnder[f]) => s \in Attempted

\* C10: on POSIX, whatever the running processes do while _killTree walks the
\* tree, when termProc has returned true every descendant of child.pid was
\* sent SIGINT.
C10_NoDescendantLeft ==
    (status = "resolved" /\ platform # "win32")
        => Descendants(RootPid) \subseteq signalled

(***************************************************************************)
(* Properties of splitCommandLine (under SpecSplit)                        *)
(***************************************************************************)
\* a match of the quoted alternatives: it opens and closes with one quote
IsQuotedSpan(a) == Len(a) >= 2 /\ a[1] \in {"'", "\""} /\ a[Len(a)] = a[1]

\* C5: every quoted span comes back as one token, its surrounding quotes
\* removed and each \" in it unescaped; build --target "My App" -j4 gives
\* build, --target, My App, -j4.
C5_QuotedSpansStripped ==
    (fn = "splitCommandLine" /\ out.kind = "returned") =>
        /\ \A k \in 1 .. Len(out.quoted_args) :
              IsQuotedSpan(out.quoted_args[k]) =>
                  out.value[k] = UnescapeQuotes(SubSeq(out.quoted_args[k], 2,
                                                       Len(out.quoted_args[k]) - 1))
        /\ arg = CmdBuildTarget =>
              out.value = << <<"b", "u", "i", "l", "d">>,
                             <<"-", "-", "t", "a", "r", "g", "e", "t">>,
                             <<"M", "y", " ", "A", "p", "p">>,
                             <<"-", "j", "4">> >>

\* C9: a command string without a matchable token makes splitCommandLine fail
\* with a ParseError, not in another way.
C9_ParseError ==
    (fn = "splitCommandLine" /\ out.kind # "pending" /\ MatchAll(arg, 1) = <<>>)
        => (out.kind = "thrown" /\ out.error = "ParseError")

(***************************************************************************)
(* Property of cmakeify (under SpecCmakeify)                               *)
(***************************************************************************)
\* s split at each ';' that no backslash precedes
RECURSIVE SplitUnescaped(_)
SplitUnescaped(s) ==
    LET seps == {i \in 1 .. Len(s) : s[i] = ";" /\ (i = 1 \/ s[i - 1] # "\\")}
    IN IF seps = {} THEN <<s>>
       ELSE LET k == CHOOSE i \in seps : \A j \in seps : i <= j
            IN <<SubSeq(s, 1, k - 1)>> \o SplitUnescaped(SubSeq(s, k + 1, Len(s)))

\* C6: for an array whose elements hold no semicolon, splitting
\* cmakeify(L).value at the unescaped semicolons gives L back.
C6_ListRoundTrip ==
    (/\ fn = "cmakeify"
     /\ out.kind = "returned"
     /\ arg.t = "array"
     /\ \A k \in 1 .. Len(arg.v) : ";" \notin Range(arg.v[k]))
        => SplitUnescaped(out.value.value) = arg.v

(***************************************************************************)
(* Property of replaceVars (under SpecVars)                                *)
(***************************************************************************)
\* one pass over str: a placeholder found in str is replaced by its value,
\* taken as it is; everything else is copied
RECURSIVE SinglePass(_, _, _)
SinglePass(str, i, reps) ==
    IF i > Len(str) THEN <<>>
    ELSE LET hits == {k \in 1 .. Len(reps) : HasAt(str, i, reps[k][1])}
         IN IF hits = {} THEN <<str[i]>> \o SinglePass(str, i + 1, reps)
            ELSE LET k == CHOOSE h \in hits : TRUE
                 IN reps[k][2] \o SinglePass(str, i + Len(reps[k][1]), reps)

\* C7: replaceVars is a single pass: a placeholder that appears only in the
\* value of another one is not substituted, other text is left verbatim.
C7_SinglePass ==
    (fn = "replaceVars" /\ out.kind = "returned")
        => out.value = SinglePass(arg.str, 1, Replacements(arg.rootPath, arg.toolset))

(***************************************************************************)
(* Property of normalizePath (under SpecPath)                              *)
(***************************************************************************)
\* C8: normalizePath is idempotent: normalizing a normalized path gives the
\* same path.
C8_Idempotent ==
    (fn = "normalizePath" /\ out.kind = "returned" /\ out.calls = 2)
        => out.value = out.of

====
